---- MODULE Spec2Model ----
(***************************************************************************)
(* A model of the cryptcord relay server.                                  *)
(*                                                                         *)
(*   - the socket surface: Server._listen (server.py), the identity        *)
(*     resolver get_user_id (database/utilities.py) and the handlers       *)
(*     post_message / retrieve_messages (handlers/messages.py) over the    *)
(*     tables of database/_models.py;                                      *)
(*   - the endpoint surface: get_or_create_user, create_message and        *)
(*     retrieve_messages of database/operations.py over the tables of      *)
(*     database/models.py.                                                 *)
(*                                                                         *)
(* Every coroutine is cut at its await points: asyncio runs the code       *)
(* between two awaits of one task without interleaving, so one action is   *)
(* the code from one await to the next.                                    *)
(*                                                                         *)
(* Each function is modelled as its code reads, with the modules it        *)
(* imports resolved and the tables of its model file created.  The class   *)
(* operations.py calls EncryptedMessage, with the column encrypted_text,   *)
(* is the class Message of database/models.py; the request models of       *)
(* connections/schemas/requests.py are not part of the sources, so the     *)
(* endpoint requests carry the fields operations.py reads from them, with  *)
(* the meaning the endpoints of main.py document.                          *)
(***************************************************************************)
EXTENDS Integers, Sequences, FiniteSets, TLC

(***************************************************************************)
(* Bounds of the model.                                                    *)
(***************************************************************************)
\* The byte-size ceiling the modelled server is configured with (the
\* program's default is 4096; sizes in the model are relative to this one).
Limit == 2
\* Connections accepted over a run of the socket server.
MaxConnections == 2
\* Endpoint calls started over a run of the endpoint surface.
MaxCalls == 3
\* Largest reading of the server clock (datetime.now).
MaxTime == 1
\* Connections and endpoint calls, together, over a run in which both
\* surfaces work on one users table.
MaxResolverTasks == 2

\* The task slots of the event loop (connections served concurrently), in
\* the order new connections take them.
Slots == <<"c1", "c2">>
Conns == {Slots[i] : i \in 1..Len(Slots)}
\* The task slots of the endpoint surface.
CallSlots == <<"t1", "t2">>
Calls == {CallSlots[i] : i \in 1..Len(CallSlots)}

(***************************************************************************)
(* Public keys and their text encoding.                                    *)
(***************************************************************************)
\* base64.b64decode of a text a client sends as a public key: whether it
\* decodes, and to which bytes.  "KA", "KB" and "KC" encode 32-byte keys,
\* "K16" encodes a 16-byte value, any other text does not decode.  The
\* decoder is not strict: it skips characters outside the alphabet and
\* ignores the unused bits of the last character, so "KA2", another text,
\* decodes to the bytes of "KA".
b64decode(text) ==
    CASE text = "KA" -> [ok |-> TRUE, bytes |-> "a", len |-> 32]
      [] text = "KA2" -> [ok |-> TRUE, bytes |-> "a", len |-> 32]
      [] text = "KB" -> [ok |-> TRUE, bytes |-> "b", len |-> 32]
      [] text = "KC" -> [ok |-> TRUE, bytes |-> "c", len |-> 32]
      [] text = "K16" -> [ok |-> TRUE, bytes |-> "s", len |-> 16]
      [] OTHER -> [ok |-> FALSE, bytes |-> "", len |-> 0]

(***************************************************************************)
(* The data object of a request and its serialisation.                     *)
(***************************************************************************)
\* A data object: the fields it carries (present) and their values.  A
\* min_datetime below zero stands for a text datetime.fromisoformat rejects.
Data(present, action, recipient, min_datetime, sender_keys) ==
    [order |-> "o1", present |-> present, action |-> action,
     recipient_public_key |-> recipient, ciphertext |-> "C1",
     signature |-> "S1", min_datetime |-> min_datetime,
     sender_keys |-> sender_keys]

PostData(recipient) ==
    Data({"action", "recipient_public_key", "ciphertext", "signature"},
         "POST_MESSAGE", recipient, 0, {})

RetrieveData(present, min_datetime, sender_keys) ==
    Data({"action"} \cup present, "RETRIEVE_MESSAGES", "", min_datetime,
         sender_keys)

\* A post without its ciphertext field, an action the server does not map,
\* and a data object without an action.
IncompletePostData ==
    Data({"action", "recipient_public_key", "signature"}, "POST_MESSAGE",
         "KB", 0, {})
UnknownActionData == Data({"action"}, "POST_KEY", "", 0, {})
NoActionData == Data({}, "", "", 0, {})
NoData == Data({}, "", "", 0, {})

\* json.dumps(data).encode(): the bytes keep the order of the fields.
JsonDumps(data) ==
    [order |-> data.order,
     fields |-> [f \in data.present |->
                    CASE f = "action" -> <<data.action>>
                      [] f = "recipient_public_key" -> <<data.recipient_public_key>>
                      [] f = "ciphertext" -> <<data.ciphertext>>
                      [] f = "signature" -> <<data.signature>>
                      [] f = "min_datetime" -> <<"", data.min_datetime>>
                      [] OTHER -> <<"", 0, data.sender_keys>>]]

(***************************************************************************)
(* Ed25519 signatures.                                                     *)
(***************************************************************************)
\* A signature text: whether base64 decodes it, and the key and bytes the
\* decoded signature was made with.
Sign(keybytes, data) ==
    [decodable |-> TRUE, signer |-> keybytes, over |-> JsonDumps(data)]
UndecodableSignature ==
    [decodable |-> FALSE, signer |-> "", over |-> JsonDumps(NoData)]

\* Ed25519PublicKey.verify: true when the signature was made over exactly
\* these bytes with the private key of this public key.
Ed25519Verify(keybytes, sig, bytes) ==
    sig.signer = keybytes /\ sig.over = bytes

(***************************************************************************)
(* Requests: the bytes a client sends on one connection.                   *)
(***************************************************************************)
\* A request is a JSON document of doclen bytes followed by pad bytes of
\* white space.  top is what the document is; for an object, the *_t fields
\* say whether each member is missing, of the wrong type, or as expected.
Request(doclen, pad, top, data_t, data, public_key_t, public_key, signature_t, signature) ==
    [doclen |-> doclen, pad |-> pad, top |-> top,
     data_t |-> data_t, data |-> data,
     public_key_t |-> public_key_t, public_key |-> public_key,
     signature_t |-> signature_t, signature |-> signature]

NoRequest ==
    Request(0, 0, "none", "missing", NoData, "missing", "", "missing",
            UndecodableSignature)

\* A well-formed request of one unit of length, signed by signer.
Envelope(public_key, signer, data) ==
    Request(1, 0, "object", "dict", data, "str", public_key, "str",
            Sign(signer, data))

Signed(public_key, data) ==
    Envelope(public_key, b64decode(public_key).bytes, data)

\* Retrievals: without a filter, with a minimum timestamp, with a text that
\* is no timestamp, with an allow-list of senders.
RetrieveDataObjects ==
    {RetrieveData({}, 0, {}),
     RetrieveData({"min_datetime"}, MaxTime, {}),
     RetrieveData({"min_datetime"}, -1, {}),
     RetrieveData({"sender_keys"}, 0, {"KA"})}

\* Correctly signed requests: posts to another key and to the caller's own,
\* retrievals by KB, and requests of KA that fail at the dispatcher or in
\* the handler.
SignedRequests ==
    {Signed("KA", PostData("KB")), Signed("KC", PostData("KB")),
     Signed("KB", PostData("KA")), Signed("KA", PostData("KA"))}
    \cup {Signed("KB", d) : d \in RetrieveDataObjects}
    \cup {Signed("KA", d) :
            d \in {IncompletePostData, UnknownActionData, NoActionData}}

\* Requests whose signature does not verify: made with another key, or made
\* over another data object.
BadlySignedRequests ==
    {Envelope("KA", "c", d) : d \in {PostData("KB"), UnknownActionData}}
    \cup {[Signed("KA", PostData("KB")) EXCEPT !.data = PostData("KC")],
          [Signed("KA", RetrieveData({}, 0, {})) EXCEPT
              !.signature = UndecodableSignature]}

\* Requests that fail the structural checks or the decoding of the key.
MalformedRequests ==
    LET ok == Signed("KA", PostData("KB"))
        forged == Envelope("KA", "c", PostData("KB"))
    IN  {[ok EXCEPT !.top = "notjson"],
         [ok EXCEPT !.top = "nonobject"],
         [ok EXCEPT !.data_t = "missing"],
         [forged EXCEPT !.data_t = "nondict"],
         [ok EXCEPT !.public_key_t = "missing"],
         [forged EXCEPT !.signature_t = "nonstr"],
         [ok EXCEPT !.public_key = "=bad"],
         [forged EXCEPT !.public_key = "K16"],
         [ok EXCEPT !.doclen = 0, !.top = "notjson"]}

\* Requests at and above the ceiling: a document of exactly Limit bytes, one
\* of Limit + 1 bytes, and a short document padded to Limit + 1 bytes.
SizedRequests ==
    LET ok == Signed("KA", PostData("KB"))
        junk == [ok EXCEPT !.top = "notjson"]
    IN  {[ok EXCEPT !.doclen = Limit]}
        \cup {[r EXCEPT !.doclen = Limit + 1] : r \in {ok, junk}}
        \cup {[ok EXCEPT !.pad = Limit]}

Requests ==
    SignedRequests \cup BadlySignedRequests \cup MalformedRequests
    \cup SizedRequests

RequestLength(req) == req.doclen + req.pad

(***************************************************************************)
(* Server._listen up to its first database await (server.py 64-97).        *)
(***************************************************************************)
\* Lengths reader.read may return.  read(-1) reads until EOF; read(n)
\* returns as soon as some bytes are buffered, at most n of them, so any
\* non-empty prefix of the request up to n bytes.
ReadLengths(limit, req) ==
    IF RequestLength(req) = 0 THEN {0}
    ELSE IF limit <= -1 THEN {RequestLength(req)}
    ELSE {n \in 1..(limit + 1) : n <= RequestLength(req)}

\* json.loads(raw_request.decode()) of the first got bytes of a request: a
\* document cut short does not parse, trailing white space is ignored.
JsonLoads(req, got) ==
    IF got >= req.doclen /\ req.top # "notjson" THEN req
    ELSE [req EXCEPT !.top = "notjson"]

\* len(raw_request) > self.request_size_limit, when a limit is configured.
RequestTooLarge(limit, got) == limit > -1 /\ got > limit

\* The exception lines 74-81 raise on the parsed request ("" for none).
ExtractRequestError(request) ==
    CASE request.top = "notjson" -> "JSONDecodeError"
      [] request.top = "nonobject" -> "TypeError"
      [] request.data_t = "missing" -> "KeyError"
      [] request.data_t # "dict" -> "MalformedRequestError"
      [] request.public_key_t = "missing" -> "KeyError"
      [] request.public_key_t # "str" -> "MalformedRequestError"
      [] request.signature_t = "missing" -> "KeyError"
      [] request.signature_t # "str" -> "MalformedRequestError"
      [] OTHER -> ""

\* The exception lines 84-87 raise: b64decode of the key, then of the
\* signature.
PullComponentsError(request) ==
    IF ~b64decode(request.public_key).ok THEN "binascii.Error"
    ELSE IF ~request.signature.decodable THEN "binascii.Error"
    ELSE ""

\* Mutant of ValidateAuthenticityError: the key is built and verify is not
\* called.
ValidateAuthenticityErrorUnverified(request) ==
    IF b64decode(request.public_key).len # 32 THEN "ValueError" ELSE ""

\* The exception lines 90-91 raise: from_public_bytes wants 32 bytes, verify
\* wants a signature over json.dumps(data) under that key.
ValidateAuthenticityError(request) ==
    IF b64decode(request.public_key).len # 32 THEN "ValueError"
    ELSE IF ~Ed25519Verify(b64decode(request.public_key).bytes,
                           request.signature, JsonDumps(request.data))
         THEN "InvalidSignature"
    ELSE ""

\* _DATA_HANDLERS: the actions the server maps to a handler.
DATA_HANDLERS == {"POST_MESSAGE", "RETRIEVE_MESSAGES"}

\* The exception lines 94-97 raise.
DispatchError(data) ==
    IF "action" \notin data.present THEN "KeyError"
    ELSE IF data.action \notin DATA_HANDLERS THEN "UnrecognisedCommandError"
    ELSE ""

Outcome(exc, evaluated, verified) ==
    [exc |-> exc, evaluated |-> evaluated, verified |-> verified]

\* Mutant of ListenChecks: the action is looked up before the signature is
\* verified.
ListenChecksDispatchFirst(limit, req, got) ==
    LET request == JsonLoads(req, got) IN
    IF RequestTooLarge(limit, got)
    THEN Outcome("RequestTooLargeError", <<"size">>, FALSE)
    ELSE IF ExtractRequestError(request) # ""
    THEN Outcome(ExtractRequestError(request), <<"size", "structure">>, FALSE)
    ELSE IF DispatchError(request.data) # ""
    THEN Outcome(DispatchError(request.data),
                 <<"size", "structure", "dispatch">>, FALSE)
    ELSE IF PullComponentsError(request) # ""
    THEN Outcome(PullComponentsError(request),
                 <<"size", "structure", "dispatch", "decode">>, FALSE)
    ELSE IF ValidateAuthenticityError(request) # ""
    THEN Outcome(ValidateAuthenticityError(request),
                 <<"size", "structure", "dispatch", "decode", "signature">>,
                 FALSE)
    ELSE Outcome("",
                 <<"size", "structure", "dispatch", "decode", "signature">>,
                 TRUE)

\* The checks of _listen in the order the code runs them: the first
\* exception ends them.  evaluated lists the checks that ran.
ListenChecks(limit, req, got) ==
    LET request == JsonLoads(req, got) IN
    IF RequestTooLarge(limit, got)
    THEN Outcome("RequestTooLargeError", <<"size">>, FALSE)
    ELSE IF ExtractRequestError(request) # ""
    THEN Outcome(ExtractRequestError(request), <<"size", "structure">>, FALSE)
    ELSE IF PullComponentsError(request) # ""
    THEN Outcome(PullComponentsError(request),
                 <<"size", "structure", "decode">>, FALSE)
    ELSE IF ValidateAuthenticityError(request) # ""
    THEN Outcome(ValidateAuthenticityError(request),
                 <<"size", "structure", "decode", "signature">>, FALSE)
    ELSE IF DispatchError(request.data) # ""
    THEN Outcome(DispatchError(request.data),
                 <<"size", "structure", "decode", "signature", "dispatch">>,
                 TRUE)
    ELSE Outcome("",
                 <<"size", "structure", "decode", "signature", "dispatch">>,
                 TRUE)

(***************************************************************************)
(* State.                                                                  *)
(***************************************************************************)
VARIABLES
    request_size_limit, \* Server.request_size_limit
    task,               \* the _listen coroutine of each connection slot
    accepted,           \* connections accepted so far
    users,              \* table users: public_key by id (both surfaces)
    encrypted_messages, \* table encrypted_messages (database/_models.py)
    call,               \* the endpoint call of each task (main.py)
    started,            \* endpoint calls started so far
    messages,           \* table messages (database/models.py)
    exchange_keys       \* table exchange_keys (database/models.py)

vars == <<request_size_limit, task, accepted, users, encrypted_messages,
          call, started, messages, exchange_keys>>

socket_vars == <<request_size_limit, task, accepted, encrypted_messages>>
endpoint_vars == <<call, started, messages, exchange_keys>>

(***************************************************************************)
(* The storage engine: atomic inserts under the tables' constraints.       *)
(***************************************************************************)
\* select(User).where(User.public_key == public_key): the id of the row, 0
\* for no row.  Ids are assigned in insertion order from 1.
SelectUser(table, public_key) ==
    IF \E i \in 1..Len(table) : table[i] = public_key
    THEN CHOOSE i \in 1..Len(table) : table[i] = public_key
    ELSE 0

\* Mutant of UserInsertFails: the column public_key is not unique.
UserInsertFailsNoUnique(table, public_key) == FALSE

\* users.public_key is unique: the insert of a key that has a row fails.
UserInsertFails(table, public_key) == SelectUser(table, public_key) # 0

\* Mutant of EncryptedMessageInsertError: the table has no check constraint.
EncryptedMessageInsertErrorUnchecked(table, row) ==
    IF \E i \in 1..Len(table) :
            /\ table[i].recipient_id = row.recipient_id
            /\ table[i].timestamp = row.timestamp
    THEN "IntegrityError:idx_msgs_retrieval"
    ELSE ""

\* The constraint an insert into encrypted_messages violates ("" for none):
\* CheckConstraint('recipient_id != sender_id') and the unique index
\* idx_msgs_retrieval on (recipient_id, timestamp).
EncryptedMessageInsertError(table, row) ==
    IF row.recipient_id = row.sender_id THEN "IntegrityError:CHECK"
    ELSE IF \E i \in 1..Len(table) :
                /\ table[i].recipient_id = row.recipient_id
                /\ table[i].timestamp = row.timestamp
         THEN "IntegrityError:idx_msgs_retrieval"
    ELSE ""

\* The readings datetime.now() may give when a row is inserted into a
\* table: the clock does not run backwards, so none is earlier than a
\* timestamp already stored; two readings may be equal.
ClockReadings(table) ==
    {ts \in 0..MaxTime : \A i \in 1..Len(table) : table[i].timestamp <= ts}

(***************************************************************************)
(* Responses (server.py 109-129, handlers/messages.py 28-34 and 56-68).    *)
(***************************************************************************)
Response(status, message, has_data, timestamp, rows) ==
    [status |-> status, message |-> message, has_data |-> has_data,
     timestamp |-> timestamp, messages |-> rows]

NoResponse == Response(0, "", FALSE, 0, <<>>)

\* str(e) of the exceptions raised without arguments is empty.
ExceptionMessage(exc) ==
    IF exc \in {"InvalidSignature", "UnrecognisedCommandError",
                "MalformedRequestError"}
    THEN "" ELSE exc

\* Mutant of ErrorResponse: the error response carries a data member.
ErrorResponseWithData(exc) ==
    IF exc = "RequestTooLargeError"
    THEN Response(413, "Request too large.", TRUE, 0, <<>>)
    ELSE Response(500, ExceptionMessage(exc), TRUE, 0, <<>>)

\* The except clauses of _listen: 413 for RequestTooLargeError, 500 with
\* str(e) for every other exception.
ErrorResponse(exc) ==
    IF exc = "RequestTooLargeError"
    THEN Response(413, "Request too large.", FALSE, 0, <<>>)
    ELSE Response(500, ExceptionMessage(exc), FALSE, 0, <<>>)

(***************************************************************************)
(* The _listen task of a connection.                                       *)
(***************************************************************************)
\* pc: idle (no connection), read (awaiting reader.read), gu_select,
\* gu_commit, gu_reselect (the awaits of get_user_id), pm_commit (the commit
\* of post_message), rm_execute (the query of retrieve_messages), drain (the
\* response is written).  sent and got are the request the client sent and
\* the bytes the read returned; caller and public_key are the frame of
\* get_user_id.
IdleTask ==
    [pc |-> "idle", sent |-> NoRequest, got |-> 0, evaluated |-> <<>>,
     verified |-> FALSE, exc |-> "", caller |-> "", public_key |-> "",
     user_id |-> 0, recipient_id |-> 0, response |-> NoResponse]

\* Mutant of Raise: the exception leaves _listen; no response is written.
RaiseEscapes(t, exc) ==
    [t EXCEPT !.pc = "idle", !.exc = exc]

\* An exception reaches the except clauses: the response is built and
\* written (server.py 109-129).
Raise(t, exc) ==
    [t EXCEPT !.pc = "drain", !.exc = exc, !.response = ErrorResponse(exc)]

\* A call of get_user_id(session, public_key) runs to its first await.
CallGetUserId(t, caller, public_key) ==
    [t EXCEPT !.pc = "gu_select", !.caller = caller, !.public_key = public_key]

\* post_message to its first await (handlers/messages.py 16-19).
PostMessageStart(t, data) ==
    IF {"recipient_public_key", "ciphertext", "signature"} \subseteq data.present
    THEN CallGetUserId(t, "post_message", data.recipient_public_key)
    ELSE Raise(t, "KeyError")

\* retrieve_messages to its first await (handlers/messages.py 41-55).
RetrieveMessagesStart(t, data) ==
    IF "min_datetime" \in data.present /\ data.min_datetime < 0
    THEN Raise(t, "MalformedDataError")
    ELSE [t EXCEPT !.pc = "rm_execute"]

\* handler(session, data, user_id) (server.py 97 and 104-108).
CallHandler(t, data) ==
    IF data.action = "POST_MESSAGE" THEN PostMessageStart(t, data)
    ELSE RetrieveMessagesStart(t, data)

\* asyncio.start_server calls _listen for a new connection, which takes the
\* first free slot.
Accept(c) ==
    /\ task[c].pc = "idle"
    /\ \A i, j \in 1..Len(Slots) :
          i < j /\ Slots[j] = c => task[Slots[i]].pc # "idle"
    /\ accepted < MaxConnections
    /\ accepted' = accepted + 1
    /\ task' = [task EXCEPT ![c] = [IdleTask EXCEPT !.pc = "read"]]
    /\ UNCHANGED <<request_size_limit, users, encrypted_messages>>
    /\ UNCHANGED endpoint_vars

\* reader.read returns got bytes of the request req; the checks run; the
\* task stops at the first await of get_user_id or writes an error response
\* (server.py 64-103).
Listen(c, req, got) ==
    /\ task[c].pc = "read"
    /\ got \in ReadLengths(request_size_limit, req)
    /\ LET outcome == ListenChecks(request_size_limit, req, got)
           t == [task[c] EXCEPT !.sent = req, !.got = got,
                                !.evaluated = outcome.evaluated,
                                !.verified = outcome.verified]
       IN  task' = [task EXCEPT ![c] =
                IF outcome.exc # "" THEN Raise(t, outcome.exc)
                ELSE CallGetUserId(t, "_listen", req.public_key)]
    /\ UNCHANGED <<request_size_limit, accepted, users, encrypted_messages>>
    /\ UNCHANGED endpoint_vars

\* get_user_id: the first select (database/utilities.py 7-11).
GetUserIdSelect(c) ==
    /\ task[c].pc = "gu_select"
    /\ task' = [task EXCEPT ![c].pc =
            IF SelectUser(users, task[c].public_key) = 0
            THEN "gu_commit" ELSE "gu_reselect"]
    /\ UNCHANGED <<request_size_limit, accepted, users, encrypted_messages>>
    /\ UNCHANGED endpoint_vars

\* Mutant of GetUserIdCommit: the commit is not arbitrated by the unique
\* constraint, and the row of a lost race is stored as well.
GetUserIdCommitUnarbitrated(c) ==
    /\ task[c].pc = "gu_commit"
    /\ users' = Append(users, task[c].public_key)
    /\ task' = [task EXCEPT ![c].pc = "gu_reselect"]
    /\ UNCHANGED <<request_size_limit, accepted, encrypted_messages>>
    /\ UNCHANGED endpoint_vars

\* get_user_id: session.add(user) and session.commit(); the IntegrityError
\* of a lost race is not caught (database/utilities.py 12-14).
GetUserIdCommit(c) ==
    /\ task[c].pc = "gu_commit"
    /\ IF UserInsertFails(users, task[c].public_key)
       THEN /\ task' = [task EXCEPT ![c] =
                    Raise(task[c], "IntegrityError:users.public_key")]
            /\ UNCHANGED users
       ELSE /\ users' = Append(users, task[c].public_key)
            /\ task' = [task EXCEPT ![c].pc = "gu_reselect"]
    /\ UNCHANGED <<request_size_limit, accepted, encrypted_messages>>
    /\ UNCHANGED endpoint_vars

\* get_user_id: the second select and the return to the caller, which runs
\* to its next await (database/utilities.py 15-17, server.py 104,
\* handlers/messages.py 19-27).
GetUserIdReselect(c) ==
    /\ task[c].pc = "gu_reselect"
    /\ LET id == SelectUser(users, task[c].public_key) IN
       task' = [task EXCEPT ![c] =
            IF task[c].caller = "_listen"
            THEN CallHandler([task[c] EXCEPT !.user_id = id],
                             task[c].sent.data)
            ELSE [task[c] EXCEPT !.recipient_id = id, !.pc = "pm_commit"]]
    /\ UNCHANGED <<request_size_limit, accepted, users, encrypted_messages>>
    /\ UNCHANGED endpoint_vars

\* Mutant of NewEncryptedMessage: the two ids are passed in each other's
\* place.
NewEncryptedMessageSwapped(table, t, ts) ==
    [id |-> Len(table) + 1,
     ciphertext |-> t.sent.data.ciphertext,
     signature |-> t.sent.data.signature,
     sender_id |-> t.recipient_id,
     recipient_id |-> t.user_id,
     timestamp |-> ts]

\* The row post_message builds: EncryptedMessage(ciphertext, signature,
\* sender_id=user_id, recipient_id=recipient_id), with the next id of the
\* table and the clock reading ts (handlers/messages.py 16-25).
NewEncryptedMessage(table, t, ts) ==
    [id |-> Len(table) + 1,
     ciphertext |-> t.sent.data.ciphertext,
     signature |-> t.sent.data.signature,
     sender_id |-> t.user_id,
     recipient_id |-> t.recipient_id,
     timestamp |-> ts]

\* Mutant of PostMessageCommit: the identity row of the recipient shares the
\* transaction of the message, and a failed commit rolls it back.
PostMessageCommitRollsBackUser(c) ==
    /\ task[c].pc = "pm_commit"
    /\ \E ts \in ClockReadings(encrypted_messages) :
       LET row == NewEncryptedMessage(encrypted_messages, task[c], ts)
           error == EncryptedMessageInsertError(encrypted_messages, row)
       IN  IF error # ""
           THEN /\ task' = [task EXCEPT ![c] = Raise(task[c], error)]
                /\ users' = SubSeq(users, 1, Len(users) - 1)
                /\ UNCHANGED encrypted_messages
           ELSE /\ encrypted_messages' = Append(encrypted_messages, row)
                /\ task' = [task EXCEPT ![c].pc = "drain", ![c].response =
                        Response(201, "Message posted successfully.", TRUE,
                                 row.timestamp, <<>>)]
                /\ UNCHANGED users
    /\ UNCHANGED <<request_size_limit, accepted>>
    /\ UNCHANGED endpoint_vars

\* post_message: session.add(message), session.commit() and the response
\* (handlers/messages.py 20-34).
PostMessageCommit(c) ==
    /\ task[c].pc = "pm_commit"
    /\ \E ts \in ClockReadings(encrypted_messages) :
       LET row == NewEncryptedMessage(encrypted_messages, task[c], ts)
           error == EncryptedMessageInsertError(encrypted_messages, row)
       IN  IF error # ""
           THEN /\ task' = [task EXCEPT ![c] = Raise(task[c], error)]
                /\ UNCHANGED encrypted_messages
           ELSE /\ encrypted_messages' = Append(encrypted_messages, row)
                /\ task' = [task EXCEPT ![c].pc = "drain", ![c].response =
                        Response(201, "Message posted successfully.", TRUE,
                                 row.timestamp, <<>>)]
    /\ UNCHANGED <<request_size_limit, accepted, users>>
    /\ UNCHANGED endpoint_vars

\* bool(column == value) of a SQLAlchemy comparison: the hashes of the two
\* operands are compared, and a column is never its bound value.
ColumnEqualsValueTruth == FALSE

\* The where clause of retrieve_messages (handlers/messages.py 49-52):
\* `recipient_id == user_id and timestamp >= min_datetime` is evaluated by
\* Python, whose `x and y` is x when x is false and y otherwise.
RetrieveMessagesWhere(row, user_id, min_datetime) ==
    IF ColumnEqualsValueTruth
    THEN row.timestamp >= min_datetime
    ELSE row.recipient_id = user_id

\* ORDER BY timestamp over the rows ids of a table: every listing of the
\* rows in which timestamps never decrease (rows of equal timestamp come in
\* an order the engine chooses).
OrderByTimestamp(table, ids) ==
    {f \in [1..Cardinality(ids) -> ids] :
        /\ \A i, j \in 1..Cardinality(ids) : i # j => f[i] # f[j]
        /\ \A i, j \in 1..Cardinality(ids) :
              i < j => table[f[i]].timestamp <= table[f[j]].timestamp}

\* The rows the query of retrieve_messages selects (handlers/messages.py
\* 41-54): min_datetime is datetime.min when the request has none.
RetrieveMessagesRows(table, data, user_id) ==
    LET min_datetime == IF "min_datetime" \in data.present
                        THEN data.min_datetime ELSE 0
    IN  {i \in 1..Len(table) :
            RetrieveMessagesWhere(table[i], user_id, min_datetime)}

\* Mutant of RetrieveMessagesExecute: the rows a retrieval returns are
\* deleted from the table.
RetrieveMessagesExecuteDeleting(c) ==
    /\ task[c].pc = "rm_execute"
    /\ \E result \in OrderByTimestamp(encrypted_messages,
            RetrieveMessagesRows(encrypted_messages, task[c].sent.data,
                                 task[c].user_id)) :
          /\ task' = [task EXCEPT ![c].pc = "drain", ![c].response =
                Response(200, "messages retrieved.", TRUE, 0,
                     [i \in 1..Len(result) |->
                        [id |-> encrypted_messages[result[i]].id,
                         ciphertext |-> encrypted_messages[result[i]].ciphertext]])]
          /\ encrypted_messages' =
                SelectSeq(encrypted_messages,
                          LAMBDA row : \A i \in 1..Len(result) :
                                          result[i] # row.id)
    /\ UNCHANGED <<request_size_limit, accepted, users>>
    /\ UNCHANGED endpoint_vars

\* retrieve_messages: the query and the response; each entry carries the id
\* and the ciphertext of a row (handlers/messages.py 47-68).
RetrieveMessagesExecute(c) ==
    /\ task[c].pc = "rm_execute"
    /\ \E result \in OrderByTimestamp(encrypted_messages,
            RetrieveMessagesRows(encrypted_messages, task[c].sent.data,
                                 task[c].user_id)) :
          task' = [task EXCEPT ![c].pc = "drain", ![c].response =
            Response(200, "messages retrieved.", TRUE, 0,
                     [i \in 1..Len(result) |->
                        [id |-> encrypted_messages[result[i]].id,
                         ciphertext |-> encrypted_messages[result[i]].ciphertext]])]
    /\ UNCHANGED <<request_size_limit, accepted, users, encrypted_messages>>
    /\ UNCHANGED endpoint_vars

\* Mutant of Close: the end of one task ends every task of the loop.
CloseEndsEveryTask(c) ==
    /\ task[c].pc = "drain"
    /\ task' = [d \in Conns |-> IdleTask]
    /\ UNCHANGED <<request_size_limit, accepted, users, encrypted_messages>>
    /\ UNCHANGED endpoint_vars

\* The response is drained and the connection closed (server.py 129-134).
Close(c) ==
    /\ task[c].pc = "drain"
    /\ task' = [task EXCEPT ![c] = IdleTask]
    /\ UNCHANGED <<request_size_limit, accepted, users, encrypted_messages>>
    /\ UNCHANGED endpoint_vars

(***************************************************************************)
(* The endpoint surface (main.py, database/operations.py).                 *)
(***************************************************************************)
\* The keys the endpoint requests name.
EndpointKeyTexts == {"KA", "KB"}

\* A request body after the schema layer decoded it: sender_keys and
\* min_datetime are None unless given.
EndpointRequest(public_key, recipient, keys_given, keys, min_given, min) ==
    [public_key |-> public_key, recipient_public_key |-> recipient,
     encrypted_text |-> "E1", signature |-> "S1",
     sender_keys_given |-> keys_given, sender_keys |-> keys,
     min_datetime_given |-> min_given, min_datetime |-> min]

NoEndpointRequest == EndpointRequest("", "", FALSE, {}, FALSE, 0)

PostMessageRequests ==
    {EndpointRequest(k, r, FALSE, {}, FALSE, 0) :
        k \in EndpointKeyTexts, r \in EndpointKeyTexts}

RetrieveMessagesRequests ==
    {EndpointRequest(k, "", FALSE, {}, FALSE, 0) : k \in EndpointKeyTexts}
    \cup {EndpointRequest("KB", "", TRUE, {"KA"}, FALSE, 0),
          EndpointRequest("KB", "", FALSE, {}, TRUE, MaxTime),
          EndpointRequest("KB", "", TRUE, {"KA"}, TRUE, MaxTime)}

\* pc: idle, gc_select, gc_commit, gc_reselect (the awaits of
\* get_or_create_user), cm_commit (the commit of create_message),
\* rm_execute (the query of retrieve_messages), done.  resolving says which
\* user the running get_or_create_user call is for; rolled_back that a call
\* of this task caught an IntegrityError and rolled back.
IdleCall ==
    [pc |-> "idle", op |-> "", request |-> NoEndpointRequest,
     resolving |-> "", public_key |-> "", rolled_back |-> FALSE,
     sender_id |-> 0, recipient_id |-> 0, exc |-> "",
     created |-> [timestamp |-> 0, nonce |-> 0], result |-> <<>>]

\* A call of get_or_create_user(engine, public_key) runs to its first await.
CallGetOrCreateUser(t, resolving, public_key) ==
    [t EXCEPT !.pc = "gc_select", !.resolving = resolving,
              !.public_key = public_key]

\* get_or_create_user returns id to its caller, which runs to its next
\* await (database/operations.py 43-45, 61-80, 124-126, 143-151).
ReturnUser(t, id) ==
    CASE t.resolving = "sender" ->
            CallGetOrCreateUser([t EXCEPT !.sender_id = id], "recipient",
                                t.request.recipient_public_key)
      [] t.resolving = "recipient" ->
            [t EXCEPT !.recipient_id = id,
                      !.pc = IF t.op = "create_key_exchange"
                             THEN "ck_commit" ELSE "cm_commit"]
      [] OTHER ->
            [t EXCEPT !.recipient_id = id,
                      !.pc = IF t.op = "get_key_exchanges"
                             THEN "gk_execute" ELSE "rm_execute"]

\* The endpoint post_message calls operations.create_message (main.py
\* 138-152, database/operations.py 39-43).
StartCreateMessage(t, request) ==
    /\ call[t].pc = "idle"
    /\ \A i, j \in 1..Len(CallSlots) :
          i < j /\ CallSlots[j] = t => call[CallSlots[i]].pc # "idle"
    /\ started < MaxCalls
    /\ started' = started + 1
    /\ call' = [call EXCEPT ![t] =
            CallGetOrCreateUser([IdleCall EXCEPT !.op = "create_message",
                                                 !.request = request],
                                "sender", request.public_key)]
    /\ UNCHANGED <<users, messages>>
    /\ UNCHANGED socket_vars
    /\ UNCHANGED exchange_keys

\* The endpoint retrieve_messages calls operations.retrieve_messages
\* (main.py 163-179, database/operations.py 56-61).
StartRetrieveMessages(t, request) ==
    /\ call[t].pc = "idle"
    /\ \A i, j \in 1..Len(CallSlots) :
          i < j /\ CallSlots[j] = t => call[CallSlots[i]].pc # "idle"
    /\ started < MaxCalls
    /\ started' = started + 1
    /\ call' = [call EXCEPT ![t] =
            CallGetOrCreateUser([IdleCall EXCEPT !.op = "retrieve_messages",
                                                 !.request = request],
                                "user", request.public_key)]
    /\ UNCHANGED <<users, messages>>
    /\ UNCHANGED socket_vars
    /\ UNCHANGED exchange_keys

\* get_or_create_user: the first select; a user found is returned at once
\* (database/operations.py 24-28 and 37).
GetOrCreateUserSelect(t) ==
    /\ call[t].pc = "gc_select"
    /\ LET id == SelectUser(users, call[t].public_key) IN
       call' = [call EXCEPT ![t] =
            IF id = 0 THEN [call[t] EXCEPT !.pc = "gc_commit"]
            ELSE ReturnUser(call[t], id)]
    /\ UNCHANGED <<users, messages, started>>
    /\ UNCHANGED socket_vars
    /\ UNCHANGED exchange_keys

\* Mutant of GetOrCreateUserCommitted: the IntegrityError is not caught.
GetOrCreateUserCommittedUncaught(t, table) ==
    IF UserInsertFails(table, t.public_key)
    THEN [task |-> [t EXCEPT !.pc = "done",
                             !.exc = "IntegrityError:users.public_key"],
          users |-> table]
    ELSE [task |-> [t EXCEPT !.pc = "gc_reselect"],
          users |-> Append(table, t.public_key)]

\* get_or_create_user: session.add(user) and session.commit(), with the
\* rollback of a commit that raised IntegrityError: the task and the table
\* after them (database/operations.py 29-34).
GetOrCreateUserCommitted(t, table) ==
    IF UserInsertFails(table, t.public_key)
    THEN [task |-> [t EXCEPT !.rolled_back = TRUE, !.pc = "gc_reselect"],
          users |-> table]
    ELSE [task |-> [t EXCEPT !.pc = "gc_reselect"],
          users |-> Append(table, t.public_key)]

GetOrCreateUserCommit(t) ==
    /\ call[t].pc = "gc_commit"
    /\ LET after == GetOrCreateUserCommitted(call[t], users) IN
          /\ call' = [call EXCEPT ![t] = after.task]
          /\ users' = after.users
    /\ UNCHANGED <<messages, started>>
    /\ UNCHANGED socket_vars
    /\ UNCHANGED exchange_keys

\* get_or_create_user: the second select, result.one() and the return
\* (database/operations.py 35-37).
GetOrCreateUserReselect(t) ==
    /\ call[t].pc = "gc_reselect"
    /\ call' = [call EXCEPT ![t] =
            ReturnUser(call[t], SelectUser(users, call[t].public_key))]
    /\ UNCHANGED <<users, messages, started>>
    /\ UNCHANGED socket_vars
    /\ UNCHANGED exchange_keys

\* The constraint an insert into messages violates ("" for none):
\* CheckConstraint('recipient_id != sender_id'); idx_message_retrieval is
\* not unique (database/models.py 65-68).
MessageInsertError(table, row) ==
    IF row.recipient_id = row.sender_id THEN "IntegrityError:CHECK" ELSE ""

\* create_message: session.add(message), session.commit() and the returned
\* timestamp and nonce (database/operations.py 45-54).
CreateMessageCommit(t) ==
    /\ call[t].pc = "cm_commit"
    /\ \E ts \in ClockReadings(messages) :
       LET row == [id |-> Len(messages) + 1,
                   encrypted_text |-> call[t].request.encrypted_text,
                   signature |-> call[t].request.signature,
                   sender_id |-> call[t].sender_id,
                   recipient_id |-> call[t].recipient_id,
                   timestamp |-> ts,
                   nonce |-> Len(messages) + 1]
           error == MessageInsertError(messages, row)
       IN  IF error # ""
           THEN /\ call' = [call EXCEPT ![t].pc = "done", ![t].exc = error]
                /\ UNCHANGED messages
           ELSE /\ messages' = Append(messages, row)
                /\ call' = [call EXCEPT ![t].pc = "done", ![t].created =
                        [timestamp |-> row.timestamp, nonce |-> row.nonce]]
    /\ UNCHANGED <<users, started>>
    /\ UNCHANGED socket_vars
    /\ UNCHANGED exchange_keys

\* EncryptedMessage.sender_id.in_(request.sender_keys): an integer column
\* compared with public key texts; no id equals a key text.
SenderIdIn(sender_id, sender_keys) ==
    \E k \in sender_keys : <<"int", sender_id>> = <<"str", k>>

\* The rows the statement of retrieve_messages selects
\* (database/operations.py 64-76).
EndpointRetrieveRows(table, request, user_id) ==
    {i \in 1..Len(table) :
        /\ table[i].recipient_id = user_id
        /\ request.sender_keys_given =>
              SenderIdIn(table[i].sender_id, request.sender_keys)
        /\ request.min_datetime_given =>
              table[i].timestamp >= request.min_datetime}

\* MessageOutputSchema.model_validate(message): sender_key is the public
\* key of the sender's row (database/models.py 91-93).
MessageOutput(row) ==
    [sender_key |-> users[row.sender_id],
     encrypted_text |-> row.encrypted_text, signature |-> row.signature,
     timestamp |-> row.timestamp, nonce |-> row.nonce]

\* retrieve_messages: the query, ordered by timestamp alone, and the list
\* of its rows (database/operations.py 77-85).
EndpointRetrieveExecute(t) ==
    /\ call[t].pc = "rm_execute"
    /\ \E result \in OrderByTimestamp(messages,
            EndpointRetrieveRows(messages, call[t].request,
                                 call[t].recipient_id)) :
          call' = [call EXCEPT ![t].pc = "done", ![t].result =
            [i \in 1..Len(result) |-> MessageOutput(messages[result[i]])]]
    /\ UNCHANGED <<users, messages, started>>
    /\ UNCHANGED socket_vars
    /\ UNCHANGED exchange_keys

\* The endpoint returns its response (main.py 153-161, 180-187).
Return(t) ==
    /\ call[t].pc = "done"
    /\ call' = [call EXCEPT ![t] = IdleCall]
    /\ UNCHANGED <<users, messages, started>>
    /\ UNCHANGED socket_vars
    /\ UNCHANGED exchange_keys

(***************************************************************************)
(* Key exchanges on the endpoint surface (main.py 189-272,                 *)
(* database/operations.py 117-163).  operations.py names the mapped class  *)
(* KeyExchange; the table is exchange_keys of database/models.py.          *)
(***************************************************************************)
\* The body of /key_exchanges/send or /key_exchanges/retrieve after the
\* schema layer decoded it: contact_keys and min_datetime are None unless
\* given.
KeyExchangeRequest(public_key, recipient, x25519_public_key, keys_given, keys, min_given, min) ==
    [public_key |-> public_key, recipient_public_key |-> recipient,
     x25519_public_key |-> x25519_public_key, signature |-> "S1",
     contact_keys_given |-> keys_given, contact_keys |-> keys,
     min_datetime_given |-> min_given, min_datetime |-> min]

\* KA and KC send exchange keys to KB, KB sends one to KA and one to itself.
PostKeyExchangeRequests ==
    {KeyExchangeRequest("KA", "KB", "X1", FALSE, {}, FALSE, 0),
     KeyExchangeRequest("KC", "KB", "X2", FALSE, {}, FALSE, 0),
     KeyExchangeRequest("KB", "KA", "X3", FALSE, {}, FALSE, 0),
     KeyExchangeRequest("KB", "KB", "X3", FALSE, {}, FALSE, 0)}

\* KB retrieves: without a filter, with an empty and with a non-empty list of
\* contacts, with a minimum timestamp.
RetrieveKeyExchangesRequests ==
    {KeyExchangeRequest("KB", "", "", FALSE, {}, FALSE, 0),
     KeyExchangeRequest("KB", "", "", TRUE, {}, FALSE, 0),
     KeyExchangeRequest("KB", "", "", TRUE, {"KA"}, FALSE, 0),
     KeyExchangeRequest("KB", "", "", FALSE, {}, TRUE, MaxTime)}

\* The endpoint post_key_exchange calls operations.create_key_exchange
\* (main.py 219-226, database/operations.py 117-124).
StartCreateKeyExchange(t, request) ==
    /\ call[t].pc = "idle"
    /\ \A i, j \in 1..Len(CallSlots) :
          i < j /\ CallSlots[j] = t => call[CallSlots[i]].pc # "idle"
    /\ started < MaxCalls
    /\ started' = started + 1
    /\ call' = [call EXCEPT ![t] =
            CallGetOrCreateUser([IdleCall EXCEPT !.op = "create_key_exchange",
                                                 !.request = request],
                                "sender", request.public_key)]
    /\ UNCHANGED <<users, messages, exchange_keys>>
    /\ UNCHANGED socket_vars

\* The endpoint retrieve_key_exchanges calls operations.get_key_exchanges
\* (main.py 259-266, database/operations.py 137-143).
StartGetKeyExchanges(t, request) ==
    /\ call[t].pc = "idle"
    /\ \A i, j \in 1..Len(CallSlots) :
          i < j /\ CallSlots[j] = t => call[CallSlots[i]].pc # "idle"
    /\ started < MaxCalls
    /\ started' = started + 1
    /\ call' = [call EXCEPT ![t] =
            CallGetOrCreateUser([IdleCall EXCEPT !.op = "get_key_exchanges",
                                                 !.request = request],
                                "user", request.public_key)]
    /\ UNCHANGED <<users, messages, exchange_keys>>
    /\ UNCHANGED socket_vars

\* The constraint an insert into exchange_keys violates ("" for none):
\* CheckConstraint('recipient_id != sender_id'); idx_exchange_key_retrieval
\* is not unique (database/models.py 97-100).
ExchangeKeyInsertError(table, row) ==
    IF row.recipient_id = row.sender_id THEN "IntegrityError:CHECK" ELSE ""

\* create_key_exchange: session.add(key_exchange), session.commit() and the
\* returned row (database/operations.py 125-135).
CreateKeyExchangeCommit(t) ==
    /\ call[t].pc = "ck_commit"
    /\ \E ts \in ClockReadings(exchange_keys) :
       LET row == [id |-> Len(exchange_keys) + 1,
                   x25519_public_key |-> call[t].request.x25519_public_key,
                   signature |-> call[t].request.signature,
                   sender_id |-> call[t].sender_id,
                   recipient_id |-> call[t].recipient_id,
                   timestamp |-> ts]
           error == ExchangeKeyInsertError(exchange_keys, row)
       IN  IF error # ""
           THEN /\ call' = [call EXCEPT ![t].pc = "done", ![t].exc = error]
                /\ UNCHANGED exchange_keys
           ELSE /\ exchange_keys' = Append(exchange_keys, row)
                /\ call' = [call EXCEPT ![t].pc = "done",
                                        ![t].created.timestamp = row.timestamp]
    /\ UNCHANGED <<users, messages, started>>
    /\ UNCHANGED socket_vars

\* The rows the statement of get_key_exchanges selects (database/
\* operations.py 144-151).  A truthy contact_keys adds the condition
\* EncryptedMessage.sender_id.in_(contact_keys) on the table messages, which
\* joins it to the statement: a result row is a pair of an exchange key i
\* and a message j (j = 0 when messages is not joined).
GetKeyExchangesRows(exchanges, msgs, request, user_id) ==
    LET joined == request.contact_keys_given /\ request.contact_keys # {}
    IN  {p \in (1..Len(exchanges)) \X (IF joined THEN 1..Len(msgs) ELSE {0}) :
            /\ exchanges[p[1]].recipient_id = user_id
            /\ joined => SenderIdIn(msgs[p[2]].sender_id, request.contact_keys)
            /\ request.min_datetime_given =>
                  exchanges[p[1]].timestamp >= request.min_datetime}

\* A statement without ORDER BY: the engine returns the rows in an order of
\* its choice.
AnyOrder(rows) ==
    {f \in [1..Cardinality(rows) -> rows] :
        \A i, j \in 1..Cardinality(rows) : i # j => f[i] # f[j]}

\* The dict get_key_exchanges builds of a row (database/operations.py
\* 154-161).
KeyExchangeOutput(row) ==
    [sender_key |-> users[row.sender_id],
     x25519_public_key |-> row.x25519_public_key,
     signature |-> row.signature, timestamp |-> row.timestamp]

\* get_key_exchanges: the query and the list of its rows (database/
\* operations.py 144-163).
GetKeyExchangesExecute(t) ==
    /\ call[t].pc = "gk_execute"
    /\ \E result \in AnyOrder(GetKeyExchangesRows(exchange_keys, messages,
                                  call[t].request, call[t].recipient_id)) :
          call' = [call EXCEPT ![t].pc = "done", ![t].result =
            [i \in 1..Len(result) |->
                KeyExchangeOutput(exchange_keys[result[i][1]])]]
    /\ UNCHANGED <<users, messages, exchange_keys, started>>
    /\ UNCHANGED socket_vars

(***************************************************************************)
(* Specification of the socket surface.                                    *)
(***************************************************************************)
\* Server.__init__ and Server.main: a configured ceiling, empty tables, no
\* connection.
Init ==
    /\ request_size_limit = Limit
    /\ task = [c \in Conns |-> IdleTask]
    /\ accepted = 0
    /\ users = <<>>
    /\ encrypted_messages = <<>>
    /\ call = [t \in Calls |-> IdleCall]
    /\ started = 0
    /\ messages = <<>>
    /\ exchange_keys = <<>>

Next ==
    \/ \E c \in Conns : Accept(c)
    \/ \E c \in Conns, req \in Requests, got \in 0..(Limit + 1) :
          Listen(c, req, got)
    \/ \E c \in Conns : GetUserIdSelect(c)
    \/ \E c \in Conns : GetUserIdCommit(c)
    \/ \E c \in Conns : GetUserIdReselect(c)
    \/ \E c \in Conns : PostMessageCommit(c)
    \/ \E c \in Conns : RetrieveMessagesExecute(c)
    \/ \E c \in Conns : Close(c)

Spec == Init /\ [][Next]_vars

(***************************************************************************)
(* Specification of the endpoint surface.                                  *)
(***************************************************************************)
EndpointNext ==
    \/ \E t \in Calls, request \in PostMessageRequests :
          StartCreateMessage(t, request)
    \/ \E t \in Calls, request \in RetrieveMessagesRequests :
          StartRetrieveMessages(t, request)
    \/ \E t \in Calls : GetOrCreateUserSelect(t)
    \/ \E t \in Calls : GetOrCreateUserCommit(t)
    \/ \E t \in Calls : GetOrCreateUserReselect(t)
    \/ \E t \in Calls : CreateMessageCommit(t)
    \/ \E t \in Calls : EndpointRetrieveExecute(t)
    \/ \E t \in Calls : Return(t)

EndpointSpec == Init /\ [][EndpointNext]_vars

(***************************************************************************)
(* The socket surface under the scheduling of the event loop: a task whose *)
(* await completed is resumed, and the awaits on the database and on       *)
(* writer.drain complete.  The read of a connection is left unfair: the    *)
(* client decides when bytes or EOF arrive.                                *)
(***************************************************************************)
\* One request for each way _listen can end: the size error, a parse
\* error, a bad signature, an unmapped action, an error raised in each
\* handler, a constraint the commit violates, a post and a retrieval that
\* succeed.
LiveRequests ==
    {[Signed("KA", PostData("KB")) EXCEPT !.doclen = Limit + 1],
     [Signed("KA", PostData("KB")) EXCEPT !.top = "notjson"],
     Envelope("KA", "c", PostData("KB")),
     Signed("KA", UnknownActionData),
     Signed("KA", IncompletePostData),
     Signed("KB", RetrieveData({"min_datetime"}, -1, {})),
     Signed("KA", PostData("KA")),
     Signed("KA", PostData("KB")),
     Signed("KB", RetrieveData({}, 0, {}))}

LiveNext ==
    \/ \E c \in Conns : Accept(c)
    \/ \E c \in Conns, req \in LiveRequests, got \in 0..(Limit + 1) :
          Listen(c, req, got)
    \/ \E c \in Conns : GetUserIdSelect(c)
    \/ \E c \in Conns : GetUserIdCommit(c)
    \/ \E c \in Conns : GetUserIdReselect(c)
    \/ \E c \in Conns : PostMessageCommit(c)
    \/ \E c \in Conns : RetrieveMessagesExecute(c)
    \/ \E c \in Conns : Close(c)

LiveSpec ==
    /\ Init /\ [][LiveNext]_vars
    /\ \A c \in Conns :
          /\ WF_vars(GetUserIdSelect(c))
          /\ WF_vars(GetUserIdCommit(c))
          /\ WF_vars(GetUserIdReselect(c))
          /\ WF_vars(PostMessageCommit(c))
          /\ WF_vars(RetrieveMessagesExecute(c))
          /\ WF_vars(Close(c))

(***************************************************************************)
(* Both surfaces over one database: the socket server and the endpoints    *)
(* resolve identities in the same table users (both model files declare    *)
(* it with the same columns).                                              *)
(***************************************************************************)
\* The requests of this specification: two posts and a retrieval.
ResolverRequests ==
    {Signed("KA", PostData("KB")), Signed("KB", PostData("KA")),
     Signed("KB", RetrieveData({}, 0, {}))}

ResolverEndpointRequests ==
    {EndpointRequest(k, "", FALSE, {}, FALSE, 0) : k \in EndpointKeyTexts}

ResolverNext ==
    \/ \E c \in Conns : accepted + started < MaxResolverTasks /\ Accept(c)
    \/ \E c \in Conns, req \in ResolverRequests, got \in 0..(Limit + 1) :
          Listen(c, req, got)
    \/ \E c \in Conns : GetUserIdSelect(c)
    \/ \E c \in Conns : GetUserIdCommit(c)
    \/ \E c \in Conns : GetUserIdReselect(c)
    \/ \E c \in Conns : PostMessageCommit(c)
    \/ \E c \in Conns : RetrieveMessagesExecute(c)
    \/ \E c \in Conns : Close(c)
    \/ \E t \in Calls, request \in PostMessageRequests :
          accepted + started < MaxResolverTasks
            /\ StartCreateMessage(t, request)
    \/ \E t \in Calls, request \in ResolverEndpointRequests :
          accepted + started < MaxResolverTasks
            /\ StartRetrieveMessages(t, request)
    \/ \E t \in Calls : GetOrCreateUserSelect(t)
    \/ \E t \in Calls : GetOrCreateUserCommit(t)
    \/ \E t \in Calls : GetOrCreateUserReselect(t)
    \/ \E t \in Calls : CreateMessageCommit(t)
    \/ \E t \in Calls : EndpointRetrieveExecute(t)
    \/ \E t \in Calls : Return(t)

ResolverSpec == Init /\ [][ResolverNext]_vars

(***************************************************************************)
(* Vocabulary of the claims.                                               *)
(***************************************************************************)
\* The request was signed over its data by the holder of the key it claims.
Authentic(req) ==
    /\ req.top = "object" /\ req.data_t = "dict"
    /\ req.public_key_t = "str" /\ req.signature_t = "str"
    /\ b64decode(req.public_key).ok /\ req.signature.decodable
    /\ Ed25519Verify(b64decode(req.public_key).bytes, req.signature,
                     JsonDumps(req.data))

\* The task is in get_user_id, in a handler, or has written a response.
Processed(c) == task[c].pc \notin {"idle", "read"}
InResolver(c) == task[c].pc \in {"gu_select", "gu_commit", "gu_reselect"}
InHandler(c) ==
    \/ task[c].pc \in {"pm_commit", "rm_execute"}
    \/ InResolver(c) /\ task[c].caller = "post_message"
Answered(c) == task[c].pc = "drain"

\* What the server parsed on connection c.
Parsed(c) == JsonLoads(task[c].sent, task[c].got)

\* The ids of the rows a retrieval response lists.
ListedIds(response) ==
    {response.messages[i].id : i \in 1..Len(response.messages)}

(***************************************************************************)
(* C1: on every connection, get_user_id is called, a handler runs and a    *)
(* User or Message row is inserted only after the signature of the request *)
(* verified under the public key the request claims.                       *)
(***************************************************************************)
C1_StorageStep ==
    (users' # users \/ encrypted_messages' # encrypted_messages) =>
        \E c \in Conns :
            /\ task'[c] # task[c]
            /\ task[c].verified /\ Authentic(task[c].sent)

C1_VerifiedFirst ==
    /\ [](\A c \in Conns :
            (InResolver(c) \/ InHandler(c) \/ task[c].user_id # 0) =>
                task[c].verified /\ Authentic(task[c].sent))
    /\ [][C1_StorageStep]_vars

\* A badly signed request was answered while a verified one is about to
\* store its message.
C1_Witness ==
    \E c, d \in Conns :
        /\ Answered(c) /\ task[c].exc = "InvalidSignature"
        /\ users = <<>>
        /\ task[d].pc = "gu_commit" /\ Authentic(task[d].sent)

(***************************************************************************)
(* C2: when several tasks call get_user_id at once with the same unseen    *)
(* public key, one User row is created and every call returns its id: no   *)
(* call ends in an error.                                                  *)
(***************************************************************************)
C2_ConcurrentGetUserId ==
    /\ \A i, j \in 1..Len(users) : users[i] = users[j] => i = j
    /\ \A c \in Conns : task[c].exc # "IntegrityError:users.public_key"

(***************************************************************************)
(* C4: a request longer than the configured ceiling is never parsed,       *)
(* checked, verified or handled, and is answered with status 413.          *)
(***************************************************************************)
C4_OversizeRejected ==
    \A c \in Conns :
        (Processed(c) /\ request_size_limit > -1
            /\ RequestLength(task[c].sent) > request_size_limit) =>
                /\ task[c].evaluated = <<"size">>
                /\ Answered(c) /\ task[c].response.status = 413

(***************************************************************************)
(* C5: the checks of a connection run in the order size, structure,        *)
(* signature, dispatch, handler; no check runs after one that failed, and  *)
(* the exception answered is that of the first failing check.              *)
(***************************************************************************)
FailsSize(c) == task[c].got > request_size_limit /\ request_size_limit > -1
FailsStructure(c) ==
    \/ Parsed(c).top # "object" \/ Parsed(c).data_t # "dict"
    \/ Parsed(c).public_key_t # "str" \/ Parsed(c).signature_t # "str"
FailsSignature(c) == ~Authentic(Parsed(c))
FailsDispatch(c) ==
    \/ "action" \notin Parsed(c).data.present
    \/ Parsed(c).data.action \notin {"POST_MESSAGE", "RETRIEVE_MESSAGES"}

StructureExceptions ==
    {"JSONDecodeError", "TypeError", "KeyError", "MalformedRequestError"}
SignatureExceptions == {"binascii.Error", "ValueError", "InvalidSignature"}
DispatchExceptions == {"KeyError", "UnrecognisedCommandError"}

\* The last check that ran on the connection.
LastCheck(c) == task[c].evaluated[Len(task[c].evaluated)]

C5_CheckOrder ==
    \A c \in Conns : Processed(c) =>
        IF FailsSize(c)
        THEN /\ task[c].exc = "RequestTooLargeError"
             /\ task[c].evaluated = <<"size">>
        ELSE IF FailsStructure(c)
        THEN /\ task[c].exc \in StructureExceptions
             /\ task[c].evaluated = <<"size", "structure">>
        ELSE IF FailsSignature(c)
        THEN /\ task[c].exc \in SignatureExceptions
             /\ LastCheck(c) \in {"decode", "signature"}
             /\ "dispatch" \notin {task[c].evaluated[i] :
                                    i \in 1..Len(task[c].evaluated)}
        ELSE IF FailsDispatch(c)
        THEN /\ task[c].exc \in DispatchExceptions
             /\ LastCheck(c) = "dispatch"
             /\ ~InResolver(c) /\ ~InHandler(c) /\ task[c].user_id = 0
        ELSE /\ LastCheck(c) = "dispatch"
             /\ task[c].exc \notin
                   {"RequestTooLargeError", "InvalidSignature",
                    "UnrecognisedCommandError", "MalformedRequestError",
                    "JSONDecodeError", "TypeError", "binascii.Error",
                    "ValueError"}

\* A badly signed request with an unmapped action was answered with the
\* exception of the signature check.
C5_Witness ==
    \E c \in Conns :
        /\ Answered(c) /\ task[c].exc = "InvalidSignature"
        /\ task[c].sent.data.action = "POST_KEY"
        /\ ~FailsSize(c) /\ ~FailsStructure(c)
        /\ FailsSignature(c) /\ FailsDispatch(c)

(***************************************************************************)
(* C6: no stored Message has its sender as its recipient; a Post Message   *)
(* whose recipient resolves to the caller's id is answered with an error   *)
(* and inserts no row.                                                     *)
(***************************************************************************)
C6_SelfPostStep ==
    \A c \in Conns :
        (task[c].pc = "pm_commit" /\ task[c].recipient_id = task[c].user_id
            /\ task'[c] # task[c]) =>
                /\ encrypted_messages' = encrypted_messages
                /\ task'[c].pc = "drain"
                /\ task'[c].response.status \notin {200, 201}
                /\ ~task'[c].response.has_data

C6_NoSelfAddressedMessage ==
    /\ [](\A i \in 1..Len(encrypted_messages) :
            encrypted_messages[i].sender_id # encrypted_messages[i].recipient_id)
    /\ [][C6_SelfPostStep]_vars

\* A Post Message of a caller to its own key was answered with an error.
C6_Witness ==
    \E c \in Conns :
        /\ Answered(c) /\ task[c].sent.data.action = "POST_MESSAGE"
        /\ task[c].user_id # 0 /\ task[c].recipient_id = task[c].user_id
        /\ task[c].response.status = 500
        /\ encrypted_messages = <<>>

(***************************************************************************)
(* C8: a Retrieve Messages with a minimum timestamp returns exactly the    *)
(* caller's messages whose timestamp is at or after it, none earlier.      *)
(***************************************************************************)
C8_MinimumTimestamp ==
    \A c \in Conns :
        (Answered(c) /\ task[c].response.status = 200
            /\ "min_datetime" \in task[c].sent.data.present) =>
                \A id \in ListedIds(task[c].response) :
                    /\ encrypted_messages[id].recipient_id = task[c].user_id
                    /\ encrypted_messages[id].timestamp >=
                          task[c].sent.data.min_datetime

(***************************************************************************)
(* C9: a Retrieve Messages with an allow-list of sender public keys        *)
(* returns only the caller's messages whose sender's key is in the list.   *)
(***************************************************************************)
C9_SenderAllowList ==
    \A c \in Conns :
        (Answered(c) /\ task[c].response.status = 200
            /\ "sender_keys" \in task[c].sent.data.present) =>
                \A id \in ListedIds(task[c].response) :
                    /\ encrypted_messages[id].recipient_id = task[c].user_id
                    /\ users[encrypted_messages[id].sender_id] \in
                          task[c].sent.data.sender_keys

(***************************************************************************)
(* Vocabulary of the endpoint claims.                                      *)
(***************************************************************************)
\* The key a task's user ids were resolved for.
SenderKeyOf(t) == call[t].request.public_key
RecipientKeyOf(t) ==
    IF call[t].op = "create_message"
    THEN call[t].request.recipient_public_key
    ELSE call[t].request.public_key

\* The row of table messages an entry of a result was made from.
RowOfEntry(entry) ==
    CHOOSE i \in 1..Len(messages) : messages[i].nonce = entry.nonce

\* The row passes the filters the request supplies: its sender's public key
\* is in the allow-list, its timestamp is at or after the minimum.
PassesFilters(row, request) ==
    /\ request.sender_keys_given => users[row.sender_id] \in request.sender_keys
    /\ request.min_datetime_given => row.timestamp >= request.min_datetime

(***************************************************************************)
(* C3: when several tasks call get_or_create_user at once with the same    *)
(* unseen public key, one insert wins, every loser rolls back and reads    *)
(* the row again, and every call returns the winner's id.                  *)
(***************************************************************************)
C3_LoserStep ==
    \A t \in Calls :
        (call[t].pc = "gc_commit" /\ call'[t] # call[t]
            /\ SelectUser(users, call[t].public_key) # 0) =>
                /\ users' = users
                /\ call'[t].rolled_back
                /\ call'[t].pc = "gc_reselect"

C3_ConcurrentGetOrCreateUser ==
    /\ [](/\ \A i, j \in 1..Len(users) : users[i] = users[j] => i = j
          /\ \A t \in Calls :
                /\ call[t].exc # "IntegrityError:users.public_key"
                /\ call[t].sender_id # 0 =>
                      /\ call[t].sender_id \in 1..Len(users)
                      /\ users[call[t].sender_id] = SenderKeyOf(t)
                /\ call[t].recipient_id # 0 =>
                      /\ call[t].recipient_id \in 1..Len(users)
                      /\ users[call[t].recipient_id] = RecipientKeyOf(t)
                /\ (call[t].pc \in {"cm_commit", "rm_execute"}) =>
                      call[t].recipient_id # 0)
    /\ [][C3_LoserStep]_vars

\* Two tasks resolved the same key at once: one inserted the row, the other
\* rolled back, and both hold the row's id.
C3_Witness ==
    \E t, u \in Calls :
        /\ t # u
        /\ call[t].rolled_back /\ ~call[u].rolled_back
        /\ call[t].resolving = "recipient" /\ call[u].resolving = "recipient"
        /\ SenderKeyOf(t) = SenderKeyOf(u)
        /\ call[t].sender_id # 0 /\ call[t].sender_id = call[u].sender_id
        /\ Len(users) = 1

(***************************************************************************)
(* C7: Retrieve Messages returns only rows addressed to the caller, and    *)
(* returns every stored Message addressed to the caller that passes the    *)
(* filters of the request.                                                 *)
(***************************************************************************)
C7_RetrieveStep ==
    \A t \in Calls :
        (call[t].pc = "rm_execute" /\ call'[t].pc = "done") =>
            LET result == call'[t].result
                listed == {RowOfEntry(result[i]) : i \in 1..Len(result)}
            IN  /\ \A i \in listed :
                      messages[i].recipient_id = call[t].recipient_id
                /\ \A i \in 1..Len(messages) :
                      (/\ messages[i].recipient_id = call[t].recipient_id
                       /\ PassesFilters(messages[i], call[t].request))
                          => i \in listed

C7_OnlyAndAllOfTheCallers == [][C7_RetrieveStep]_vars

(***************************************************************************)
(* C10: the list Retrieve Messages returns is in ascending order of        *)
(* timestamp, entries of equal timestamp in ascending order of their       *)
(* insertion id.                                                           *)
(***************************************************************************)
C10_OrderedByTimestampThenId ==
    \A t \in Calls :
        (call[t].pc = "done" /\ call[t].op = "retrieve_messages") =>
            \A i, j \in 1..Len(call[t].result) :
                i < j =>
                    \/ call[t].result[i].timestamp < call[t].result[j].timestamp
                    \/ /\ call[t].result[i].timestamp = call[t].result[j].timestamp
                       /\ RowOfEntry(call[t].result[i])
                            < RowOfEntry(call[t].result[j])

(***************************************************************************)
(* C11: after KA posted ciphertext C1 to the unseen key KB, a following    *)
(* Retrieve Messages by KB returns exactly one entry, which carries KA's   *)
(* public key as sender, the ciphertext, the posted signature, the         *)
(* timestamp the post was answered with and the nonce.                     *)
(***************************************************************************)
C11_RetrieveStep ==
    \A c \in Conns :
        (/\ task[c].pc = "rm_execute" /\ task'[c].pc = "drain"
         /\ task[c].sent = Signed("KB", RetrieveData({}, 0, {}))
         /\ users = <<"KA", "KB">>
         /\ Len(encrypted_messages) = 1
         /\ encrypted_messages[1].sender_id = 1
         /\ encrypted_messages[1].recipient_id = 2) =>
            LET entries == task'[c].response.messages IN
            /\ Len(entries) = 1
            /\ {"sender", "ciphertext", "signature", "timestamp", "nonce"}
                  \subseteq DOMAIN entries[1]
            /\ entries[1].sender = "KA"
            /\ entries[1].ciphertext = encrypted_messages[1].ciphertext
            /\ entries[1].signature = encrypted_messages[1].signature
            /\ entries[1].timestamp = encrypted_messages[1].timestamp

C11_PostThenRetrieve == [][C11_RetrieveStep]_vars

(***************************************************************************)
(* C12: two concurrent first-contact posts, from KA and from KC, to the    *)
(* same unseen key (KB here) both succeed under every interleaving, both   *)
(* resolve the recipient to the same id, and both messages are stored for  *)
(* a later retrieval by the recipient.                                     *)
(***************************************************************************)
C12_ConcurrentFirstContact ==
    \A c, d \in Conns :
        (/\ c # d /\ accepted = 2
         /\ Answered(c) /\ task[c].sent = Signed("KA", PostData("KB"))
         /\ Answered(d) /\ task[d].sent = Signed("KC", PostData("KB"))) =>
            /\ task[c].response.status = 201
            /\ task[d].response.status = 201
            /\ task[c].recipient_id = SelectUser(users, "KB")
            /\ task[d].recipient_id = SelectUser(users, "KB")
            /\ Cardinality({i \in 1..Len(encrypted_messages) :
                    encrypted_messages[i].recipient_id
                        = SelectUser(users, "KB")}) = 2

(***************************************************************************)
(* C13: on every connection whose request was read, whatever the outcome,  *)
(* one response is written, after which the connection is closed: the      *)
(* task eventually answers and eventually closes, it never ends without    *)
(* having written a response, and it writes no second one.                 *)
(***************************************************************************)
C13_ResponseStep ==
    \A c \in Conns :
        /\ (task[c].pc # "drain" /\ task'[c].pc = "drain") =>
              task'[c].response.status # 0
        /\ (task[c].pc = "drain" /\ task'[c] # task[c]) =>
              task'[c] = IdleTask
        /\ (task[c].pc # "idle" /\ task'[c].pc = "idle") =>
              task[c].pc = "drain"

FailsDecoding(c) ==
    /\ ~FailsStructure(c)
    /\ \/ ~b64decode(Parsed(c).public_key).ok
       \/ ~Parsed(c).signature.decodable
       \/ b64decode(Parsed(c).public_key).len # 32

C14_MalformedAnswered400 ==
    \A c \in Conns :
        (Answered(c) /\ ~FailsSize(c)
            /\ (FailsStructure(c) \/ FailsDecoding(c))) =>
                /\ task[c].response.status = 400
                /\ ~task[c].verified
                /\ task[c].user_id = 0 /\ task[c].recipient_id = 0

(***************************************************************************)
(* C15: a well-formed request whose signature does not verify over its     *)
(* data under the claimed key is answered with status 401, and resolves no *)
(* identity and stores nothing.                                            *)
(***************************************************************************)
C15_BadSignatureAnswered401 ==
    \A c \in Conns :
        (Answered(c) /\ ~FailsSize(c) /\ ~FailsStructure(c)
            /\ ~FailsDecoding(c) /\ ~Authentic(Parsed(c))) =>
                /\ task[c].response.status = 401
                /\ ~task[c].verified
                /\ task[c].user_id = 0 /\ task[c].recipient_id = 0

(***************************************************************************)
(* C16: a correctly signed request whose action is not in the mapping of   *)
(* the dispatcher is answered with status 404, and no handler runs for it. *)
(***************************************************************************)
C16_UnmappedAnswered404 ==
    \A c \in Conns :
        (Answered(c) /\ ~FailsSize(c) /\ Authentic(Parsed(c))
            /\ "action" \in Parsed(c).data.present
            /\ Parsed(c).data.action \notin DATA_HANDLERS) =>
                /\ task[c].response.status = 404
                /\ task[c].user_id = 0 /\ task[c].recipient_id = 0

(***************************************************************************)
(* C17: the dispatcher routes each of the four actions (post message,      *)
(* retrieve messages, post exchange key, retrieve exchange keys) of a      *)
(* correctly signed request to a handler.                                  *)
(***************************************************************************)
\* The action tags the server's sources name (server.py 25-30).
ActionTags == {"POST_MESSAGE", "RETRIEVE_MESSAGES", "POST_KEY", "RETRIEVE_KEYS"}

C17_FourActionsRouted ==
    \A c \in Conns :
        (Answered(c) /\ ~FailsSize(c) /\ Authentic(Parsed(c))
            /\ "action" \in Parsed(c).data.present
            /\ Parsed(c).data.action \in ActionTags) =>
                /\ task[c].exc # "UnrecognisedCommandError"
                /\ task[c].user_id # 0

(***************************************************************************)
(* C18: the identity resolvers get_user_id and get_or_create_user are      *)
(* idempotent: a key that has an id keeps it, a call made once the key has *)
(* an id returns that id and inserts no row, whatever other requests of    *)
(* either surface run in between.                                          *)
(***************************************************************************)
\* The id the tables give a key does not change once it has one.
IdsAreStable ==
    \A i \in 1..Len(users) :
        Len(users') >= Len(users) /\ users'[i] = users[i]

\* A call of get_user_id whose first select finds the row inserts nothing,
\* raises nothing and goes on to return the row's id.
C18_GetUserIdStep ==
    \A c \in Conns :
        /\ (/\ task[c].pc = "gu_select" /\ task'[c] # task[c]
            /\ SelectUser(users, task[c].public_key) # 0) =>
                /\ users' = users
                /\ task'[c].pc = "gu_reselect" /\ task'[c].exc = ""
        /\ (task[c].pc = "gu_reselect" /\ task'[c] # task[c]) =>
                /\ users' = users
                /\ IF task[c].caller = "_listen"
                   THEN task'[c].user_id
                          = SelectUser(users, task[c].public_key)
                   ELSE task'[c].recipient_id
                          = SelectUser(users, task[c].public_key)

\* A call of get_or_create_user whose first select finds the row inserts
\* nothing and returns the row's id.
C18_GetOrCreateUserStep ==
    \A t \in Calls :
        (/\ call[t].pc = "gc_select" /\ call'[t] # call[t]
         /\ SelectUser(users, call[t].public_key) # 0) =>
            /\ users' = users
            /\ call'[t].pc # "gc_commit" /\ call'[t].exc = ""
            /\ IF call[t].resolving = "sender"
               THEN call'[t].sender_id
                      = SelectUser(users, call[t].public_key)
               ELSE call'[t].recipient_id
                      = SelectUser(users, call[t].public_key)

C18_ResolverIdempotent ==
    /\ [](/\ \A i, j \in 1..Len(users) : users[i] = users[j] => i = j
          /\ \A c \in Conns :
                /\ task[c].user_id # 0 =>
                      SelectUser(users, task[c].sent.public_key)
                          = task[c].user_id
                /\ task[c].recipient_id # 0 =>
                      SelectUser(users,
                                 task[c].sent.data.recipient_public_key)
                          = task[c].recipient_id
          /\ \A t \in Calls :
                /\ call[t].sender_id # 0 =>
                      SelectUser(users, SenderKeyOf(t)) = call[t].sender_id
                /\ call[t].recipient_id # 0 =>
                      SelectUser(users, RecipientKeyOf(t))
                          = call[t].recipient_id)
    /\ [][IdsAreStable /\ C18_GetUserIdStep /\ C18_GetOrCreateUserStep]_vars

\* A connection and an endpoint call resolved the same key to the same id,
\* and each went on to resolve a recipient.
C18_Witness ==
    \E c \in Conns, t \in Calls :
        /\ task[c].user_id # 0 /\ call[t].sender_id = task[c].user_id
        /\ task[c].sent.public_key = SenderKeyOf(t)
        /\ task[c].recipient_id # 0 /\ call[t].recipient_id # 0
        /\ \A i, j \in 1..Len(users) : users[i] = users[j] => i = j

(***************************************************************************)
(* C19: a User row committed while a request is served stays when that     *)
(* request later fails: no step, the failure of a request included,        *)
(* removes or changes a row of users, and a task answered with an error    *)
(* still finds the rows it resolved.                                       *)
(***************************************************************************)
C19_FailureStep ==
    /\ \A i \in 1..Len(users) :
          Len(users') >= Len(users) /\ users'[i] = users[i]
    /\ \A c \in Conns :
          (task[c].pc # "drain" /\ task'[c].pc = "drain"
              /\ task'[c].response.status \notin {200, 201}) =>
                  users' = users

C19_IdentityRowsRetained ==
    /\ [](\A c \in Conns :
            (Answered(c) /\ task[c].response.status \notin {200, 201}) =>
                /\ task[c].user_id # 0 =>
                      /\ task[c].user_id \in 1..Len(users)
                      /\ users[task[c].user_id] = task[c].sent.public_key
                /\ task[c].recipient_id # 0 =>
                      /\ task[c].recipient_id \in 1..Len(users)
                      /\ users[task[c].recipient_id]
                            = task[c].sent.data.recipient_public_key)
    /\ [][C19_FailureStep]_vars

\* A post failed at its commit after the rows of its sender and of its
\* recipient were created, and both rows are in the table.
C19_Witness ==
    \E c \in Conns :
        /\ Answered(c) /\ task[c].response.status = 500
        /\ task[c].exc = "IntegrityError:idx_msgs_retrieval"
        /\ task[c].user_id # 0 /\ task[c].recipient_id # 0
        /\ users[task[c].user_id] = task[c].sent.public_key
        /\ users[task[c].recipient_id] = task[c].sent.data.recipient_public_key

(***************************************************************************)
(* C20: a response carries a data member exactly when the request          *)
(* succeeded: every response of status 200 or 201 has data, every other    *)
(* response has none.                                                      *)
(***************************************************************************)
C20_DataIffSuccess ==
    \A c \in Conns :
        Answered(c) =>
            /\ task[c].response.status # 0
            /\ task[c].response.has_data
                  <=> task[c].response.status \in {200, 201}

\* A post answered 201 with data beside a request answered 500 without.
C20_Witness ==
    \E c, d \in Conns :
        /\ Answered(c) /\ task[c].response.status = 201
        /\ task[c].response.has_data
        /\ Answered(d) /\ task[d].response.status = 500
        /\ ~task[d].response.has_data

(***************************************************************************)
(* C21: a successful Post Message inserts exactly one Message row, with a  *)
(* timestamp and a nonce the server assigned, and is answered with status  *)
(* 201 and a data payload that holds the timestamp and the nonce of that   *)
(* row.                                                                    *)
(***************************************************************************)
\* The data member of a success response of the socket server: the payload
\* of post_message (handlers/messages.py 31-33) or that of
\* retrieve_messages (56-66).
ResponseData(response) ==
    IF response.status = 201 THEN [timestamp |-> response.timestamp]
    ELSE [messages |-> response.messages]

C21_PostStep ==
    \A c \in Conns :
        (/\ task[c].pc = "pm_commit" /\ task'[c].pc = "drain"
         /\ task'[c].response.status = 201) =>
            /\ Len(encrypted_messages') = Len(encrypted_messages) + 1
            /\ LET row == encrypted_messages'[Len(encrypted_messages')]
                   data == ResponseData(task'[c].response)
               IN  /\ task'[c].response.has_data
                   /\ {"timestamp", "nonce"} \subseteq DOMAIN row
                   /\ {"timestamp", "nonce"} \subseteq DOMAIN data
                   /\ data.timestamp = row.timestamp
                   /\ data.nonce = row.nonce

C21_PostAnswersTimestampAndNonce == [][C21_PostStep]_vars

(***************************************************************************)
(* The order of the fields of a data object.  json.loads builds the dict   *)
(* in the order of the document and json.dumps writes it in that order     *)
(* (server.py 73-85), so the bytes verified follow the document.           *)
(***************************************************************************)
\* The same request with the fields of its data object in another order;
\* the signature text is unchanged.
Reordered(req) == [req EXCEPT !.data.order = "o2"]

\* A post and a retrieval, each in two field orders, and a post whose
\* signature was made by another key.
FieldOrderRequests ==
    LET base == {Signed("KA", PostData("KB")),
                 Signed("KB", RetrieveData({}, 0, {}))}
    IN  base \cup {Reordered(r) : r \in base}
        \cup {Envelope("KA", "c", PostData("KB"))}

FieldOrderNext ==
    \/ \E c \in Conns : Accept(c)
    \/ \E c \in Conns, req \in FieldOrderRequests, got \in 0..(Limit + 1) :
          Listen(c, req, got)
    \/ \E c \in Conns : GetUserIdSelect(c)
    \/ \E c \in Conns : GetUserIdCommit(c)
    \/ \E c \in Conns : GetUserIdReselect(c)
    \/ \E c \in Conns : PostMessageCommit(c)
    \/ \E c \in Conns : RetrieveMessagesExecute(c)
    \/ \E c \in Conns : Close(c)

FieldOrderSpec == Init /\ [][FieldOrderNext]_vars

\* The two requests carry the same members, and data objects with the same
\* fields and values, in whatever order.
SameContent(r, s) == [r EXCEPT !.data.order = s.data.order] = s

(***************************************************************************)
(* C22: the bytes a signature is verified against depend only on the       *)
(* fields and values of the data object, not on their order: two requests  *)
(* that differ only in the field order of data are verified against the    *)
(* same bytes, and the signature accepted for one is accepted for the      *)
(* other.                                                                  *)
(***************************************************************************)
C22_FieldOrderIrrelevant ==
    \A c, d \in Conns :
        (/\ Processed(c) /\ Processed(d)
         /\ task[c].got = task[d].got
         /\ SameContent(task[c].sent, task[d].sent)) =>
            /\ JsonDumps(Parsed(c).data) = JsonDumps(Parsed(d).data)
            /\ task[c].verified = task[d].verified

\* The public keys whose signature an endpoint has verified when it calls
\* its operation: none.  main.py opens with the note "VALIDATE KEYS AND
\* SIGNATURES HERE", the dependency verify_user_key of line 106 is
\* commented out, and neither the endpoints nor the operations call verify.
EndpointVerifiedKeys(t) == {}

(***************************************************************************)
(* C23: on the endpoint surface, as on the socket surface, no User row is  *)
(* created and no Message row is inserted by a call unless a signature for *)
(* the sender key the call claims was verified first.                      *)
(***************************************************************************)
C23_StorageStep ==
    (users' # users \/ messages' # messages) =>
        \E t \in Calls :
            /\ call[t].pc \in {"gc_commit", "cm_commit"}
            /\ call'[t] # call[t]
            /\ call[t].request.public_key \in EndpointVerifiedKeys(call[t])

C23_EndpointVerifiesFirst == [][C23_StorageStep]_vars

(***************************************************************************)
(* Specification of the key exchanges of the endpoint surface.             *)
(***************************************************************************)
KeyExchangeNext ==
    \/ \E t \in Calls, request \in PostKeyExchangeRequests :
          StartCreateKeyExchange(t, request)
    \/ \E t \in Calls, request \in RetrieveKeyExchangesRequests :
          StartGetKeyExchanges(t, request)
    \/ \E t \in Calls : GetOrCreateUserSelect(t)
    \/ \E t \in Calls : GetOrCreateUserCommit(t)
    \/ \E t \in Calls : GetOrCreateUserReselect(t)
    \/ \E t \in Calls : CreateKeyExchangeCommit(t)
    \/ \E t \in Calls : GetKeyExchangesExecute(t)
    \/ \E t \in Calls : Return(t)

KeyExchangeSpec == Init /\ [][KeyExchangeNext]_vars

\* The rows of exchange_keys addressed to user_id that pass the filters the
\* request supplies, matched on the sender of the row itself.  An empty
\* list of contacts is read as no list.
ExpectedExchangeKeys(request, user_id) ==
    {i \in 1..Len(exchange_keys) :
        /\ exchange_keys[i].recipient_id = user_id
        /\ (request.contact_keys_given /\ request.contact_keys # {}) =>
              users[exchange_keys[i].sender_id] \in request.contact_keys
        /\ request.min_datetime_given =>
              exchange_keys[i].timestamp >= request.min_datetime}

\* Rows of a table in ascending order of timestamp, rows of equal timestamp
\* in ascending order of id.
ByTimestampThenId(table, ids) ==
    CHOOSE f \in [1..Cardinality(ids) -> ids] :
        \A i, j \in 1..Cardinality(ids) :
            i < j =>
                \/ table[f[i]].timestamp < table[f[j]].timestamp
                \/ /\ table[f[i]].timestamp = table[f[j]].timestamp
                   /\ f[i] < f[j]

(***************************************************************************)
(* C24: Retrieve Exchange Keys returns the ExchangeKey rows addressed to   *)
(* the caller, narrowed by the allow-list of senders (matched on the       *)
(* sender of the ExchangeKey row) and by the inclusive minimum timestamp   *)
(* when the request supplies them, in ascending order of timestamp, rows   *)
(* of equal timestamp in ascending order of insertion id.                  *)
(***************************************************************************)
C24_RetrieveStep ==
    \A t \in Calls :
        (call[t].pc = "gk_execute" /\ call'[t].pc = "done") =>
            LET expected == ByTimestampThenId(exchange_keys,
                    ExpectedExchangeKeys(call[t].request, call[t].recipient_id))
            IN  call'[t].result =
                    [i \in 1..Len(expected) |->
                        KeyExchangeOutput(exchange_keys[expected[i]])]

C24_ExchangeKeysLikeMessages == [][C24_RetrieveStep]_vars

\* The response is a success response of a handler.
Succeeded(response) == response.status \in {200, 201}

(***************************************************************************)
(* C25: connections are isolated.  A step of one connection leaves the     *)
(* task of every other connection as it was; the step by which a           *)
(* connection fails (an error response is built) or ends (the response is  *)
(* written or the connection is dropped, and the task finishes) leaves     *)
(* every table and the configuration as they were, so nothing another      *)
(* connection reads differs; and a connection accepted afterwards starts   *)
(* from the state of a fresh task.                                         *)
(***************************************************************************)
C25_IsolationStep ==
    \A c \in Conns :
        /\ task'[c] # task[c] =>
              \A d \in Conns \ {c} : task'[d] = task[d]
        /\ (/\ task[c].pc # "drain" /\ task'[c].pc = "drain"
            /\ ~Succeeded(task'[c].response)) =>
              /\ users' = users
              /\ encrypted_messages' = encrypted_messages
              /\ request_size_limit' = request_size_limit
        /\ (task[c].pc = "drain" /\ task'[c].pc # "drain") =>
              /\ task'[c] = IdleTask
              /\ users' = users
              /\ encrypted_messages' = encrypted_messages
              /\ request_size_limit' = request_size_limit
        /\ (task[c].pc = "idle" /\ task'[c].pc # "idle") =>
              task'[c] = [IdleTask EXCEPT !.pc = "read"]

C25_ConnectionsIsolated == [][C25_IsolationStep]_vars

\* One connection was answered with an error while another, served at the
\* same time, was answered with a success.
C25_Witness ==
    \E c, d \in Conns :
        /\ c # d
        /\ Answered(c) /\ ~Succeeded(task[c].response)
        /\ Answered(d) /\ Succeeded(task[d].response)

(***************************************************************************)
(* C26: messages are append-only.  A step never updates or deletes a row   *)
(* of encrypted_messages: every row stays where it is with the sender id,  *)
(* recipient id, ciphertext, signature and timestamp it was committed      *)
(* with; and the two ids of every row are ids of rows of users.            *)
(***************************************************************************)
C26_AppendStep ==
    /\ Len(encrypted_messages') >= Len(encrypted_messages)
    /\ \A i \in 1..Len(encrypted_messages) :
          encrypted_messages'[i] = encrypted_messages[i]
    /\ Len(users') >= Len(users)
    /\ \A i \in 1..Len(users) : users'[i] = users[i]

C26_MessagesAppendOnly ==
    /\ [](\A i \in 1..Len(encrypted_messages) :
            /\ encrypted_messages[i].id = i
            /\ encrypted_messages[i].sender_id \in 1..Len(users)
            /\ encrypted_messages[i].recipient_id \in 1..Len(users))
    /\ [][C26_AppendStep]_vars

\* A message is stored and a request served afterwards or beside it has
\* failed.
C26_Witness ==
    /\ Len(encrypted_messages) >= 1
    /\ accepted = MaxConnections
    /\ \E c \in Conns : Answered(c) /\ ~Succeeded(task[c].response)

(***************************************************************************)
(* C27: for a correctly signed request the identity of the sender is       *)
(* resolved, and created when the key is new, before the action is looked  *)
(* up: a correctly signed request whose action the server does not map     *)
(* leaves a User row for its key, also when the key was never seen.        *)
(***************************************************************************)
C27_IdentityBeforeDispatch ==
    \A c \in Conns :
        (/\ Answered(c)
         /\ Authentic(Parsed(c))
         /\ task[c].exc = "UnrecognisedCommandError") =>
            SelectUser(users, task[c].sent.public_key) # 0

(***************************************************************************)
(* The size check under each configuration of the ceiling (server.py       *)
(* 43-53 and 64-71): a ceiling of Limit bytes, a ceiling of 0 bytes, and   *)
(* no ceiling (-1).                                                        *)
(***************************************************************************)
BoundaryInit ==
    /\ request_size_limit \in {-1, 0, Limit}
    /\ task = [c \in Conns |-> IdleTask]
    /\ accepted = 0
    /\ users = <<>>
    /\ encrypted_messages = <<>>
    /\ call = [t \in Calls |-> IdleCall]
    /\ started = 0
    /\ messages = <<>>
    /\ exchange_keys = <<>>

\* Requests of 0, 1, Limit and Limit + 1 bytes, and a retrieval.
BoundaryRequests ==
    SizedRequests
    \cup {Signed("KA", PostData("KB")),
          Signed("KB", RetrieveData({}, 0, {})),
          [Signed("KA", PostData("KB")) EXCEPT !.doclen = 0,
                                             !.top = "notjson"]}

BoundaryNext ==
    \/ \E c \in Conns : Accept(c)
    \/ \E c \in Conns, req \in BoundaryRequests, got \in 0..(Limit + 1) :
          Listen(c, req, got)
    \/ \E c \in Conns : GetUserIdSelect(c)
    \/ \E c \in Conns : GetUserIdCommit(c)
    \/ \E c \in Conns : GetUserIdReselect(c)
    \/ \E c \in Conns : PostMessageCommit(c)
    \/ \E c \in Conns : RetrieveMessagesExecute(c)
    \/ \E c \in Conns : Close(c)

BoundarySpec == BoundaryInit /\ [][BoundaryNext]_vars

(***************************************************************************)
(* C28: with a ceiling of L >= 0 bytes, a request of exactly L bytes       *)
(* passes the size check and a request of L + 1 bytes or more is rejected  *)
(* as too large; with no ceiling (a value of -1 or less) no request is     *)
(* rejected as too large, whatever its length.                             *)
(***************************************************************************)
C28_SizeBoundary ==
    \A c \in Conns :
        Processed(c) =>
            LET length == RequestLength(task[c].sent)
                rejected == task[c].exc = "RequestTooLargeError"
            IN  /\ (request_size_limit >= 0 /\ length <= request_size_limit)
                      => ~rejected
                /\ (request_size_limit >= 0 /\ length > request_size_limit)
                      => rejected
                /\ request_size_limit <= -1 => ~rejected

(***************************************************************************)
(* C29: the sender id of every stored message is the identity of the       *)
(* public key that signed the request which created it: the row a post     *)
(* inserts names as sender the User row of the key the request claims, and *)
(* the request was signed by that key, whatever its data object names.     *)
(***************************************************************************)
C29_SenderStep ==
    \A c \in Conns :
        (/\ task[c].pc = "pm_commit" /\ task'[c] # task[c]
         /\ Len(encrypted_messages') = Len(encrypted_messages) + 1) =>
            LET row == encrypted_messages'[Len(encrypted_messages')] IN
                /\ row.sender_id \in 1..Len(users)
                /\ users[row.sender_id] = task[c].sent.public_key
                /\ Authentic(task[c].sent)
                /\ task[c].sent.signature.signer =
                      b64decode(users[row.sender_id]).bytes

C29_SenderIsTheSigner == [][C29_SenderStep]_vars

\* A post that names another key in its data object was stored and
\* answered.
C29_Witness ==
    \E c \in Conns :
        /\ Answered(c) /\ task[c].response.status = 201
        /\ task[c].sent.data.recipient_public_key # task[c].sent.public_key
        /\ Len(encrypted_messages) >= 1

(***************************************************************************)
(* Two spellings of one key.  get_user_id is called with the text of the   *)
(* request (server.py 99-103, handlers/messages.py 16-19), the signature   *)
(* is verified under the bytes the text decodes to (server.py 86-91).      *)
(***************************************************************************)
\* The holder of the key "a" posts under both spellings, posts to its own
\* key under the other spelling, and retrieves; KB posts to that key.
SpellingRequests ==
    {Signed("KA", PostData("KB")), Signed("KA2", PostData("KB")),
     Signed("KA", PostData("KA2")), Signed("KB", PostData("KA")),
     Signed("KA2", RetrieveData({}, 0, {}))}

SpellingNext ==
    \/ \E c \in Conns : Accept(c)
    \/ \E c \in Conns, req \in SpellingRequests, got \in 0..(Limit + 1) :
          Listen(c, req, got)
    \/ \E c \in Conns : GetUserIdSelect(c)
    \/ \E c \in Conns : GetUserIdCommit(c)
    \/ \E c \in Conns : GetUserIdReselect(c)
    \/ \E c \in Conns : PostMessageCommit(c)
    \/ \E c \in Conns : RetrieveMessagesExecute(c)
    \/ \E c \in Conns : Close(c)

SpellingSpec == Init /\ [][SpellingNext]_vars

\* The 32-byte key of a User row.
KeyBytesOf(id) == b64decode(users[id]).bytes

(***************************************************************************)
(* C30: there is one identity per public key, not per spelling of it: two  *)
(* texts that decode to the same 32 bytes resolve to the same user id, as  *)
(* sender and as recipient, and no message is stored whose sender and      *)
(* recipient are the same key under two spellings.                         *)
(***************************************************************************)
C30_OneIdentityPerKey ==
    /\ \A i, j \in 1..Len(users) : KeyBytesOf(i) = KeyBytesOf(j) => i = j
    /\ \A m \in 1..Len(encrypted_messages) :
          KeyBytesOf(encrypted_messages[m].sender_id)
            # KeyBytesOf(encrypted_messages[m].recipient_id)

(***************************************************************************)
(* Posts whose recipient is no key.  post_message takes                    *)
(* str(data['recipient_public_key']) and passes it to get_user_id          *)
(* (handlers/messages.py 16-19); nothing decodes or measures it.           *)
(***************************************************************************)
\* KA posts to a key, to a text that encodes 16 bytes, to a text base64
\* does not decode, and to the number 123 (which str() turns into the text
\* "123"); KB retrieves.
RecipientRequests ==
    {Signed("KA", PostData(r)) : r \in {"KB", "K16", "=bad", "123"}}
    \cup {Signed("KB", RetrieveData({}, 0, {}))}

RecipientNext ==
    \/ \E c \in Conns : Accept(c)
    \/ \E c \in Conns, req \in RecipientRequests, got \in 0..(Limit + 1) :
          Listen(c, req, got)
    \/ \E c \in Conns : GetUserIdSelect(c)
    \/ \E c \in Conns : GetUserIdCommit(c)
    \/ \E c \in Conns : GetUserIdReselect(c)
    \/ \E c \in Conns : PostMessageCommit(c)
    \/ \E c \in Conns : RetrieveMessagesExecute(c)
    \/ \E c \in Conns : Close(c)

RecipientSpec == Init /\ [][RecipientNext]_vars

\* The text is the encoding of a 32-byte value.
EncodesKey(text) == b64decode(text).ok /\ b64decode(text).len = 32

(***************************************************************************)
(* C31: the public key of every User row is the text encoding of a         *)
(* 32-byte value; a Post Message whose recipient_public_key is no such     *)
(* encoding (wrong length, not decodable, not a text) creates no User row. *)
(***************************************************************************)
C31_UsersHoldKeys ==
    \A i \in 1..Len(users) : EncodesKey(users[i])

(***************************************************************************)
(* C32: an equal timestamp never causes a post to be rejected.  When the   *)
(* commit of a correctly signed Post Message to another user runs, the     *)
(* message is persisted and the post answered 201, also when a message to  *)
(* the same recipient with the same server timestamp is already stored.    *)
(***************************************************************************)
C32_PostStep ==
    \A c \in Conns :
        (/\ task[c].pc = "pm_commit" /\ task'[c] # task[c]
         /\ task[c].user_id # task[c].recipient_id) =>
            /\ Len(encrypted_messages') = Len(encrypted_messages) + 1
            /\ task'[c].response.status = 201

C32_EqualTimestampsPersisted == [][C32_PostStep]_vars

(***************************************************************************)
(* C33: under every interleaving of concurrent requests, of both           *)
(* resolvers, no two User rows hold the same public key text, and the id   *)
(* a key was given is the id it has in every later state.                  *)
(***************************************************************************)
C33_IdStep ==
    \A i \in 1..Len(users) :
        SelectUser(users', users[i]) = SelectUser(users, users[i])

C33_KeysUniqueIdsFixed ==
    /\ [](\A i, j \in 1..Len(users) : users[i] = users[j] => i = j)
    /\ [][C33_IdStep]_vars

\* Two tasks raced to insert one key: the loser's commit failed (it raised,
\* or rolled back and read again) and the key has its one row.
C33_Witness ==
    /\ \/ \E c \in Conns : task[c].exc = "IntegrityError:users.public_key"
       \/ \E t \in Calls : call[t].rolled_back
    /\ Len(users) >= 1
    /\ \A i, j \in 1..Len(users) : users[i] = users[j] => i = j

====
